---- MODULE Spec2Model ----
(***************************************************************************)
(* Model of the restart orchestrator (executeRestart, pingServer,          *)
(* executeSSHReboot) and of the health monitor sweep (monitorAllServers)   *)
(* of backend/services/monitoring.js, of the scheduler behind              *)
(* src/pages/Scheduler.tsx, and of the routes that delete a group and      *)
(* register a user.                                                        *)
(*                                                                         *)
(* Nine specifications share the variables:                                *)
(*   Spec           one run of executeRestart over a list of servers       *)
(*   SpecReboot     one call of executeSSHReboot, every order of its events*)
(*   SpecMonitor    the sweeps of monitorAllServers                        *)
(*   SpecProbe      one call of each probe, every order of its events      *)
(*   SpecBatches    two calls of executeRestart at the same time           *)
(*   SpecScheduler  the scheduler's page, route and driver                 *)
(*   SpecGroups     requests to delete a group and to move a server        *)
(*   SpecRegister   requests to register a user                            *)
(*   SpecLifecycle  calls of startMonitoring and stopMonitoring            *)
(***************************************************************************)
EXTENDS Integers, Sequences, FiniteSets, TLC

VARIABLES
    \* ---- executeRestart(servers, restartLog, io)
    servers0,    \* the servers argument as the caller passed it
    servers,     \* the servers array (sorted in place by line 155)
    io,          \* whether an event sink was passed
    rpc,         \* position of executeRestart
    idx,         \* index in servers of the iteration of the for loop
    inStep,      \* ids of the servers whose loop iteration is executing
    details,     \* the details object: [servers, errors]
    restartLog,  \* the persisted RestartLog row: [status, details, endTime]
    emitted,     \* the restart-status events emitted, in order
    order,       \* ids of the servers in the order their pre-flight started
    sshCalls,    \* per server id, the number of executeSSHReboot calls
    pingOk,      \* per server id, the outcome of its pre-flight ("none" before)
    waited,      \* per server id, the milliseconds of pacing wait done after it
    \* ---- pingServer(host) of the restart service
    ping,        \* the promise and child process of the pre-flight in flight
    \* ---- executeSSHReboot(server)
    ssh,         \* the promise and child process of the reboot in flight
    \* ---- the Server rows and the health monitor
    active,      \* per server id, the row's isActive
    dbStatus,    \* per server id, the persisted status
    lastPing,    \* per server id, the persisted lastPing: the number of the
                 \* sweep whose new Date() it holds (0: null)
    lastTelnet,  \* per server id, the persisted lastTelnet, likewise
    sweep,       \* per sweep, the state of that call of monitorAllServers
    logCount,    \* per server id, the number of MonitorLog rows created
    lastLog,     \* per server id, the MonitorLog row created last
    alerts,      \* per server id, the number of alert mails requested
    transitions, \* per server id, the number of times the persisted status
                 \* went from 'online' to 'offline'
    statusEvents, \* per server id, the number of server-status events emitted
    \* ---- pingServer(host) and telnetServer(host, port) of the monitor
    monPing,     \* the promise and child process of a ping check
    socket,      \* the promise and socket of a port check
    \* ---- two calls of executeRestart that run at the same time
    batch,       \* per call, its position, its servers array and its index
    \* ---- the scheduler: the ScheduledTask rows, the driver and the page
    task,        \* per task id, the row: [status, instant, batch]
    now,         \* the clock, in half hours
    tick,        \* per scan tick of the driver, its position, the due tasks
                 \* it listed and the task whose batch it is running
    batches,     \* per task id, the number of restart batches produced
    response,    \* the outcome of the last create or cancel request
    \* ---- the routes DELETE /groups/:id, PUT /servers/:id, POST /register
    groups,      \* the ids of the Group rows
    groupId,     \* per server id, the groupId of the Server row (0: null)
    del,         \* per delete request, its position, group and answer
    users,       \* per username, the User row
    reg,         \* per register request, its position, body and answer
    \* ---- startMonitoring(io) and stopMonitoring()
    monitoringInterval, \* the module variable of line 6: the timer set last
                 \* (0: undefined)
    timers,      \* the interval timers that are set and not cleared
    starts,      \* the number of calls of startMonitoring; call n set timer n
    lastCall,    \* the call made last: "none", "start" or "stop"
    fired,       \* per timer, the number of sweeps its callback has started
    sweepsAfter  \* the number of sweeps timers have started since the last call

restartVars == <<servers0, servers, io, rpc, idx, inStep, details, restartLog,
                 emitted, order, sshCalls, pingOk, waited>>
monitorVars == <<active, dbStatus, lastPing, lastTelnet, sweep,
                 logCount, lastLog, alerts, transitions, statusEvents>>
probeVars == <<monPing, socket>>
schedVars == <<task, now, tick, batches, response>>
adminVars == <<groups, groupId, del, users, reg>>
lifeVars == <<monitoringInterval, timers, starts, lastCall, fired, sweepsAfter>>
otherVars == <<batch, schedVars, adminVars, lifeVars>>
auxVars == <<probeVars, otherVars>>
vars == <<restartVars, ping, ssh, monitorVars, auxVars>>

(***************************************************************************)
(* Bounds of the model.                                                    *)
(***************************************************************************)
MaxHosts == 2      \* at most this many servers in a batch
MaxOrder == 1      \* restartOrder ranges over 0..MaxOrder
MaxNow == 4        \* the clock runs from 0 to MaxNow half hours
MaxStarts == 3     \* at most this many calls of startMonitoring
MaxTicks == 2      \* a timer fires at most this many times

HostIds == 1..MaxHosts
\* restartDelay values: none, and the 30 seconds of the seeded server
Delays == {0, 30}

(***************************************************************************)
(* Values.                                                                 *)
(***************************************************************************)
\* the close event's code when the child was ended by a signal (JS null)
NullCode == -1
\* exit codes a close event carries: clean, generic failure, ssh's 255, null
CloseCodes == {0, 1, 255, NullCode}
\* what the child wrote to stderr: nothing, or a diagnostic
Stderrs == {"", "Permission denied"}

ServerRecs == [id : HostIds, restartOrder : 0..MaxOrder, restartDelay : Delays]

\* lists of servers with pairwise distinct ids: the rows of one query
ServerLists ==
    UNION { { s \in [1..n -> ServerRecs] : \A i \in 1..n : s[i].id = i } : n \in 1..MaxHosts }

(***************************************************************************)
(* Promises: the first resolve or reject settles, later ones are ignored.  *)
(***************************************************************************)
Pending == [settled |-> FALSE, ok |-> FALSE, msg |-> ""]

SettleResult(p, ok, msg) ==
    IF p.settled THEN p ELSE [settled |-> TRUE, ok |-> ok, msg |-> msg]

(***************************************************************************)
(* Child processes.  A record holds the promise the caller awaits and what *)
(* has happened to the child: host = 0 when none was spawned yet.          *)
(*   first      the event that happened first ("none" before any)          *)
(*   closeCode  the code of the close event, once closed                   *)
(***************************************************************************)
NoChild == [host |-> 0, promise |-> Pending, closed |-> FALSE, closeCode |-> 0,
            errored |-> FALSE, timerFired |-> FALSE, killed |-> FALSE,
            stderr |-> "", first |-> "none"]

Spawned(h) == [NoChild EXCEPT !.host = h]

First(c, ev) == IF c.first = "none" THEN ev ELSE c.first

(***************************************************************************)
(* pingServer of the restart service: resolves code === 0 on close, false  *)
(* on error, and false after 5 s, when it also kills the child.            *)
(***************************************************************************)
PingCloseValue(code) == code = 0

PingClose(code) ==
    /\ ping.host # 0 /\ ~ping.closed
    /\ ping' = [ping EXCEPT !.closed = TRUE, !.closeCode = code,
                            !.first = First(ping, "close"),
                            !.promise = SettleResult(@, PingCloseValue(code), "")]

PingError ==
    /\ ping.host # 0 /\ ~ping.closed /\ ~ping.errored
    /\ ping' = [ping EXCEPT !.errored = TRUE,
                            !.first = First(ping, "error"),
                            !.promise = SettleResult(@, FALSE, "")]

PingTimeout ==
    /\ ping.host # 0 /\ ~ping.timerFired
    /\ ping' = [ping EXCEPT !.timerFired = TRUE, !.killed = TRUE,
                            !.first = First(ping, "timeout"),
                            !.promise = SettleResult(@, FALSE, "")]

(***************************************************************************)
(* pingServer of the monitor (lines 81-118): as the pre-flight ping, with  *)
(* a timer of 10 s that is never cleared.                                  *)
(***************************************************************************)
MonPingCloseValue(code) == code = 0

MonPingClose(code) ==
    /\ monPing.host # 0 /\ ~monPing.closed
    /\ monPing' = [monPing EXCEPT !.closed = TRUE, !.closeCode = code,
                                  !.first = First(monPing, "close"),
                                  !.promise = SettleResult(@, MonPingCloseValue(code), "")]

MonPingError ==
    /\ monPing.host # 0 /\ ~monPing.closed /\ ~monPing.errored
    /\ monPing' = [monPing EXCEPT !.errored = TRUE,
                                  !.first = First(monPing, "error"),
                                  !.promise = SettleResult(@, FALSE, "")]

\* faulty variant of MonPingTimeout: the timer kills the child and resolves
\* nothing
MonPingTimeoutKillOnly ==
    /\ monPing.host # 0 /\ ~monPing.timerFired
    /\ monPing' = [monPing EXCEPT !.timerFired = TRUE, !.killed = TRUE,
                                  !.first = First(monPing, "timeout")]

\* lines 113-116
MonPingTimeout ==
    /\ monPing.host # 0 /\ ~monPing.timerFired
    /\ monPing' = [monPing EXCEPT !.timerFired = TRUE, !.killed = TRUE,
                                  !.first = First(monPing, "timeout"),
                                  !.promise = SettleResult(@, FALSE, "")]

(***************************************************************************)
(* telnetServer (lines 120-143): a TCP connection attempt with a timer of  *)
(* 5 s.  The connect listener and the error listener clear the timer; the  *)
(* connect listener and the timer destroy the socket, and a socket that has*)
(* emitted an error is destroyed by the runtime.  A destroyed socket emits *)
(* neither connect nor error.                                              *)
(***************************************************************************)
NoSocket == [host |-> 0, promise |-> Pending, connected |-> FALSE, errored |-> FALSE,
             timerFired |-> FALSE, timerCleared |-> FALSE, destroyed |-> FALSE,
             first |-> "none"]

Connecting(h) == [NoSocket EXCEPT !.host = h]

\* lines 131-135
TelnetConnect ==
    /\ socket.host # 0 /\ ~socket.destroyed
    /\ socket' = [socket EXCEPT !.connected = TRUE, !.timerCleared = TRUE,
                                !.destroyed = TRUE,
                                !.first = First(socket, "connect"),
                                !.promise = SettleResult(@, TRUE, "")]

\* lines 137-141
TelnetError ==
    /\ socket.host # 0 /\ ~socket.destroyed
    /\ socket' = [socket EXCEPT !.errored = TRUE, !.timerCleared = TRUE,
                                !.destroyed = TRUE,
                                !.first = First(socket, "error"),
                                !.promise = SettleResult(@, FALSE, "")]

\* lines 126-129
TelnetTimeout ==
    /\ socket.host # 0 /\ ~socket.timerCleared /\ ~socket.timerFired
    /\ socket' = [socket EXCEPT !.timerFired = TRUE, !.destroyed = TRUE,
                                !.first = First(socket, "timeout"),
                                !.promise = SettleResult(@, FALSE, "")]

(***************************************************************************)
(* executeSSHReboot: the close handler classifies the exit code, the error *)
(* handler rejects, and the 15 s timer kills the child and rejects.        *)
(***************************************************************************)
\* faulty variant of RebootAccepted: a dropped connection is a failure
RebootAcceptedCleanExitOnly(code) == code = 0

\* line 310: code === 0 || code === null || code === 255
RebootAccepted(code) == code = 0 \/ code = NullCode \/ code = 255

\* line 314: stderr || `SSH command failed with exit code ${code}`
CloseErrorMsg(stderr, code) ==
    IF stderr # "" THEN stderr
    ELSE "SSH command failed with exit code " \o ToString(code)

SshData(text) ==
    /\ ssh.host # 0 /\ ~ssh.closed /\ ssh.stderr = ""
    /\ ssh' = [ssh EXCEPT !.stderr = @ \o text]

SshClose(code) ==
    /\ ssh.host # 0 /\ ~ssh.closed
    /\ ssh' = [ssh EXCEPT !.closed = TRUE, !.closeCode = code,
                          !.first = First(ssh, "close"),
                          !.promise =
                              IF RebootAccepted(code)
                              THEN SettleResult(@, TRUE, "")
                              ELSE SettleResult(@, FALSE, CloseErrorMsg(ssh.stderr, code))]

SshError ==
    /\ ssh.host # 0 /\ ~ssh.closed /\ ~ssh.errored
    /\ ssh' = [ssh EXCEPT !.errored = TRUE,
                          !.first = First(ssh, "error"),
                          !.promise = SettleResult(@, FALSE, "SSH connection failed: spawn error")]

\* faulty variant of SshTimeout: the timer kills the child and does not reject
SshTimeoutKillOnly ==
    /\ ssh.host # 0 /\ ~ssh.timerFired
    /\ ssh' = [ssh EXCEPT !.timerFired = TRUE, !.killed = TRUE,
                          !.first = First(ssh, "timeout")]

\* lines 325-329
SshTimeout ==
    /\ ssh.host # 0 /\ ~ssh.timerFired
    /\ ssh' = [ssh EXCEPT !.timerFired = TRUE, !.killed = TRUE,
                          !.first = First(ssh, "timeout"),
                          !.promise = SettleResult(@, FALSE, "SSH command timeout")]

(***************************************************************************)
(* executeRestart.                                                         *)
(***************************************************************************)
\* line 155: servers.sort((a, b) => a.restartOrder - b.restartOrder).
\* Array.prototype.sort is stable: an element goes after every element that
\* does not compare greater than it.
\* faulty variant of Compare: descending order
CompareReversed(a, b) == b.restartOrder - a.restartOrder

Compare(a, b) == a.restartOrder - b.restartOrder

RECURSIVE InsertSorted(_, _)
InsertSorted(x, s) ==
    IF s = <<>> THEN <<x>>
    ELSE IF Compare(s[Len(s)], x) <= 0 THEN Append(s, x)
    ELSE Append(InsertSorted(x, SubSeq(s, 1, Len(s) - 1)), s[Len(s)])

RECURSIVE SortPrefix(_, _)
SortPrefix(s, n) ==
    IF n = 0 THEN <<>> ELSE InsertSorted(s[n], SortPrefix(s, n - 1))

SortServers(s) == SortPrefix(s, Len(s))

NoDetails == [kind |-> "none", servers |-> <<>>, errors |-> <<>>, error |-> ""]
EmptyDetails == [NoDetails EXCEPT !.kind = "hosts"]

\* io.emit('restart-status', ...) when a sink was passed
Emit(status, serverId) ==
    IF io THEN Append(emitted, [status |-> status, serverId |-> serverId]) ELSE emitted

Current == servers[idx]

\* lines 150-163: sort, announce the start, enter the loop
StartRestart ==
    /\ rpc = "call"
    /\ servers' = SortServers(servers)
    /\ details' = EmptyDetails
    /\ emitted' = Emit("started", 0)
    /\ idx' = 0
    /\ rpc' = "loop"
    /\ UNCHANGED <<servers0, io, inStep, restartLog, order, sshCalls, pingOk, waited, ping, ssh, monitorVars, auxVars>>

\* the for loop takes its next server once the awaits of the iteration before
\* it have resumed and the iteration has ended
\* faulty variant of LoopReady: the loop goes on without awaiting the iteration
LoopReadyNoAwait == rpc \in {"loop", "ping", "ssh", "delay"}

LoopReady == rpc = "loop"

\* lines 165-170: the next iteration starts with the pre-flight ping
LoopNext ==
    /\ LoopReady
    /\ idx < Len(servers)
    /\ idx' = idx + 1
    /\ inStep' = inStep \cup {servers[idx + 1].id}
    /\ order' = Append(order, servers[idx + 1].id)
    /\ ping' = Spawned(servers[idx + 1].id)
    /\ rpc' = "ping"
    /\ UNCHANGED <<servers0, servers, io, details, restartLog, emitted, sshCalls, pingOk, waited, ssh, monitorVars, auxVars>>

\* line 165 -> 221: no server is left, the final update is issued
LoopExit ==
    /\ rpc = "loop"
    /\ idx = Len(servers)
    /\ rpc' = "update"
    /\ UNCHANGED <<servers0, servers, io, idx, inStep, details, restartLog, emitted,
                   order, sshCalls, pingOk, waited, ping, ssh, monitorVars, auxVars>>

\* faulty variant of AfterHostFailure: the catch block rethrows
AfterHostFailureAbort == "catch"

\* where the per-server catch block of lines 201-217 leaves the loop
AfterHostFailure == "loop"

\* faulty variant of HostFailed: the failure is announced and not recorded
HostFailedUnrecorded(msg) ==
    /\ details' = details
    /\ emitted' = Emit("error", Current.id)
    /\ inStep' = inStep \ {Current.id}
    /\ rpc' = AfterHostFailure

\* lines 201-217: the catch block of one iteration
HostFailed(msg) ==
    /\ details' = [details EXCEPT !.errors = Append(@, [serverId |-> Current.id, error |-> msg])]
    /\ emitted' = Emit("error", Current.id)
    /\ inStep' = inStep \ {Current.id}
    /\ rpc' = AfterHostFailure

\* faulty variant of PreflightThrows: the ping result is ignored
PreflightNeverThrows(pingResult) == FALSE

\* line 171: if (!pingResult) throw
PreflightThrows(pingResult) == ~pingResult

\* lines 170-176: the pre-flight resolved.  The events of a child that come
\* after its promise has settled reach no state of executeRestart (SpecReboot
\* covers them), so the child's record is dropped here.
AfterPing ==
    /\ rpc = "ping"
    /\ ping.host = Current.id /\ ping.promise.settled
    /\ pingOk' = [pingOk EXCEPT ![Current.id] = IF ping.promise.ok THEN "ok" ELSE "fail"]
    /\ IF PreflightThrows(ping.promise.ok)
       THEN /\ HostFailed("Server is not reachable via ping")
            /\ UNCHANGED <<ssh, sshCalls>>
       ELSE /\ ssh' = Spawned(Current.id)
            /\ sshCalls' = [sshCalls EXCEPT ![Current.id] = @ + 1]
            /\ rpc' = "ssh"
            /\ UNCHANGED <<details, emitted, inStep>>
    /\ ping' = NoChild
    /\ UNCHANGED <<servers0, servers, io, idx, restartLog, order, waited, monitorVars, auxVars>>

\* faulty variant of PacingNeeded: restartDelay is ignored
PacingNever(server) == FALSE

\* line 196: if (server.restartDelay > 0), reached on the success path only
PacingNeeded(server) == server.restartDelay > 0

\* faulty variant of StatusAfterReboot: a rebooted server is marked offline
StatusAfterRebootOffline(h) ==
    [r \in DOMAIN dbStatus |-> IF r = h THEN "offline" ELSE dbStatus[r]]

\* lines 176-199: the Server rows after a reboot that succeeded;
\* executeRestart calls update on restartLog only, never on a server
StatusAfterReboot(h) == dbStatus

\* lines 176-199 and 201-217: the reboot settled
AfterReboot ==
    /\ rpc = "ssh"
    /\ ssh.host = Current.id /\ ssh.promise.settled
    /\ dbStatus' = IF ssh.promise.ok THEN StatusAfterReboot(Current.id) ELSE dbStatus
    /\ IF ssh.promise.ok
       THEN /\ details' = [details EXCEPT !.servers = Append(@, [id |-> Current.id, status |-> "success"])]
            /\ emitted' = Emit("restarted", Current.id)
            /\ IF PacingNeeded(Current)
               THEN rpc' = "delay" /\ UNCHANGED inStep
               ELSE rpc' = "loop" /\ inStep' = inStep \ {Current.id}
       ELSE HostFailed(ssh.promise.msg)
    /\ ssh' = NoChild
    /\ UNCHANGED <<servers0, servers, io, idx, restartLog, order, sshCalls, pingOk, waited, ping>>
    /\ UNCHANGED <<active, lastPing, lastTelnet, sweep, logCount, lastLog, alerts,
                   transitions, statusEvents, auxVars>>

\* line 198: the pacing timer of restartDelay seconds elapsed
DelayElapsed ==
    /\ rpc = "delay"
    /\ waited' = [waited EXCEPT ![Current.id] = Current.restartDelay * 1000]
    /\ inStep' = inStep \ {Current.id}
    /\ rpc' = "loop"
    /\ UNCHANGED <<servers0, servers, io, idx, details, restartLog, emitted, order,
                   sshCalls, pingOk, ping, ssh, monitorVars, auxVars>>

\* faulty variant of BatchStatus: decided by the successes
BatchStatusBySuccesses(d) == IF Len(d.servers) > 0 THEN "completed" ELSE "failed"

\* line 221
BatchStatus(d) == IF Len(d.errors) = 0 THEN "completed" ELSE "failed"

\* faulty variant of UpdateLog: the event after the write throws into the
\* outer catch block
UpdateLogEmitThrows(dbOk) ==
    /\ rpc = "update"
    /\ IF dbOk
       THEN /\ restartLog' = [status |-> BatchStatus(details), details |-> details, endTime |-> TRUE]
            /\ rpc' = "catch"
            /\ UNCHANGED emitted
       ELSE /\ rpc' = "catch"
            /\ UNCHANGED <<restartLog, emitted>>
    /\ UNCHANGED <<servers0, servers, io, idx, inStep, details, order, sshCalls, pingOk,
                   waited, ping, ssh, monitorVars, auxVars>>

\* lines 220-235: restartLog.update either writes the row or rejects
UpdateLog(dbOk) ==
    /\ rpc = "update"
    /\ IF dbOk
       THEN /\ restartLog' = [status |-> BatchStatus(details), details |-> details, endTime |-> TRUE]
            /\ emitted' = Emit(BatchStatus(details), 0)
            /\ rpc' = "done"
       ELSE /\ rpc' = "catch"
            /\ UNCHANGED <<restartLog, emitted>>
    /\ UNCHANGED <<servers0, servers, io, idx, inStep, details, order, sshCalls, pingOk,
                   waited, ping, ssh, monitorVars, auxVars>>

\* lines 237-252: the outer catch block; its own update may reject as well,
\* and then executeRestart rejects with the row untouched
CatchUpdate(dbOk) ==
    /\ rpc = "catch"
    /\ IF dbOk
       THEN /\ restartLog' = [status |-> "failed",
                              details |-> [NoDetails EXCEPT !.kind = "error", !.error = "Database error"],
                              endTime |-> TRUE]
            /\ emitted' = Emit("failed", 0)
            /\ rpc' = "done"
       ELSE /\ rpc' = "thrown"
            /\ UNCHANGED <<restartLog, emitted>>
    /\ UNCHANGED <<servers0, servers, io, idx, inStep, details, order, sshCalls, pingOk,
                   waited, ping, ssh, monitorVars, auxVars>>

(***************************************************************************)
(* Two calls of executeRestart at the same time, for instance a manual     *)
(* trigger while a scheduled task fires.  Each call runs the steps of      *)
(* lines 150-221 on its own servers array; the child processes are reduced *)
(* to their results (SpecProbe and SpecReboot have their events).  The two *)
(* arrays hold rows of the same Server table.                              *)
(***************************************************************************)
Batches == {1, 2}

NoBatch == [pc |-> "none", list |-> <<>>, i |-> 0]

BatchServer(b) == batch[b].list[batch[b].i]

\* lines 150-163
BatchStart(b) ==
    /\ batch[b].pc = "call"
    /\ batch' = [batch EXCEPT ![b].list = SortServers(@), ![b].pc = "loop"]

\* lines 165-170: the next iteration starts with the pre-flight ping
BatchNext(b) ==
    /\ batch[b].pc = "loop"
    /\ batch[b].i < Len(batch[b].list)
    /\ batch' = [batch EXCEPT ![b].i = @ + 1, ![b].pc = "ping"]

\* lines 170-176: the pre-flight resolved; executeSSHReboot is called when
\* it resolved true
BatchPing(b, pingResult) ==
    /\ batch[b].pc = "ping"
    /\ batch' = [batch EXCEPT ![b].pc =
           IF PreflightThrows(pingResult) THEN AfterHostFailure ELSE "ssh"]

\* lines 176-217: the reboot settled
BatchReboot(b, ok) ==
    /\ batch[b].pc = "ssh"
    /\ batch' = [batch EXCEPT ![b].pc =
           IF ~ok THEN AfterHostFailure
           ELSE IF PacingNeeded(BatchServer(b)) THEN "delay" ELSE "loop"]

\* line 198
BatchDelay(b) ==
    /\ batch[b].pc = "delay"
    /\ batch' = [batch EXCEPT ![b].pc = "loop"]

\* lines 220-235
BatchExit(b) ==
    /\ batch[b].pc = "loop"
    /\ batch[b].i = Len(batch[b].list)
    /\ batch' = [batch EXCEPT ![b].pc = "done"]

(***************************************************************************)
(* The scheduler.  Its page (src/pages/Scheduler.tsx) is under src/; the   *)
(* route and the driver behind schedulerAPI are not, and are taken from    *)
(* sections 4.5, 5 and 7 of the specification.  Time is counted in half    *)
(* hours.  A date-time string is the wall-clock reading of an instant in a *)
(* time zone: the instant plus the zone's offset from UTC.                 *)
(***************************************************************************)
Tasks == {1, 2}
Ticks == {1, 2}
LeadTime == 2      \* one hour
TzOffsets == {0 - 2, 0, 2}
Leads == 0..(LeadTime + 1)

\* a task row: its status, its instant and the outcome of its restart batch
NoTask == [status |-> "none", instant |-> 0, batch |-> "none"]
NoResponse == [op |-> "none", task |-> 0, result |-> "none", lead |-> 0, hosts |-> TRUE]
\* a scan tick: the tasks it listed, the task whose batch it runs and whether
\* the notification it dispatched last could not be delivered
IdleTick == [pc |-> "idle", due |-> {}, cur |-> 0, undelivered |-> FALSE]

SchedulerIdle ==
    /\ task = [t \in Tasks |-> NoTask]
    /\ now = 0
    /\ tick = [k \in Ticks |-> IdleTick]
    /\ batches = [t \in Tasks |-> 0]
    /\ response = NoResponse

\* the wall-clock reading of instant x in the zone of offset tz
WallClock(x, tz) == x + tz

\* Date.prototype.toISOString().slice(0, 16): the reading in UTC
ToISOString(x) == WallClock(x, 0)

\* new Date(s) of a datetime-local string: s is read in the browser's zone
ParseLocal(s, tz) == s - tz

\* lines 155-160: now plus one hour, as a UTC reading
GetMinDateTime(n) == ToISOString(n + LeadTime)

\* line 291: min={getMinDateTime()} on the datetime-local input; the browser
\* submits the form only when the value is not below min
MinAllows(value, n) == value >= GetMinDateTime(n)

\* faulty variant of SubmitValid: the host selection is not looked at
SubmitValidDateOnly(nonEmpty, scheduledDate, n) == ~(scheduledDate <= n)

\* lines 65-77: the checks of handleSubmit
SubmitValid(nonEmpty, scheduledDate, n) == nonEmpty /\ ~(scheduledDate <= n)

\* faulty variant of CreateAccepted: any future instant is accepted
CreateAcceptedAnyFuture(nonEmpty, instant, n) == nonEmpty /\ instant > n

\* section 4.5, acceptance: the host set is not empty and the instant is
\* strictly later than now plus the minimum lead time
CreateAccepted(nonEmpty, instant, n) == nonEmpty /\ instant > n + LeadTime

FreeIds == { t \in Tasks : task[t].status = "none" }

\* lines 62-94: the form is submitted with a host selection and a date-time
\* picked in the browser's zone, lead half hours from now; the request that
\* passes the checks of the page goes to the route
HandleSubmit(nonEmpty, lead, tz) ==
    LET value == WallClock(now + lead, tz)
        scheduledDate == ParseLocal(value, tz)
        made == [op |-> "create", task |-> 0, result |-> "none", lead |-> lead,
                 hosts |-> nonEmpty]
    IN  IF ~MinAllows(value, now)
        THEN /\ response' = [made EXCEPT !.result = "blocked"]
             /\ UNCHANGED task
        ELSE IF ~SubmitValid(nonEmpty, scheduledDate, now)
        THEN /\ response' = [made EXCEPT !.result = "invalid"]
             /\ UNCHANGED task
        ELSE IF ~CreateAccepted(nonEmpty, scheduledDate, now)
        THEN /\ response' = [made EXCEPT !.result = "rejected"]
             /\ UNCHANGED task
        ELSE /\ FreeIds # {}
             /\ LET id == CHOOSE t \in FreeIds : \A u \in FreeIds : t <= u
                IN  /\ task' = [task EXCEPT ![id] = [NoTask EXCEPT
                                                         !.status = "pending",
                                                         !.instant = scheduledDate]]
                    /\ response' = [made EXCEPT !.result = "created", !.task = id]

\* faulty variant of CancelAccepted: a task that is running is cancelled too
CancelAcceptedUnlessTerminal(status) == status \in {"pending", "running"}

\* section 4.5: only a pending task is cancelled
CancelAccepted(status) == status = "pending"

\* lines 96-107 and 246-253: the Cancel button of a row the page has loaded
\* as pending, which the row may no longer be; the route cancels a pending
\* task and rejects the request for any other as a conflict
HandleCancel(t) ==
    /\ task[t].status # "none"
    /\ IF CancelAccepted(task[t].status)
       THEN /\ task' = [task EXCEPT ![t].status = "cancelled"]
            /\ response' = [NoResponse EXCEPT !.op = "cancel", !.task = t,
                                              !.result = "cancelled"]
       ELSE /\ response' = [NoResponse EXCEPT !.op = "cancel", !.task = t,
                                              !.result = "conflict"]
            /\ UNCHANGED task

\* faulty variant of ListDueTasks: a task that is overdue is left out
ListDueTasksWithCutoff(n) ==
    { t \in Tasks : task[t].status = "pending" /\ task[t].instant = n }

\* listDueTasks(now): the pending tasks whose instant has elapsed
ListDueTasks(n) ==
    { t \in Tasks : task[t].status = "pending" /\ task[t].instant <= n }

\* a scan tick of the driver lists the due tasks
Scan(k) ==
    /\ tick[k].pc = "idle"
    /\ tick' = [tick EXCEPT ![k] = [IdleTick EXCEPT !.pc = "claim",
                                                    !.due = ListDueTasks(now)]]

\* faulty variant of ClaimAccepted: the status is set without a test
ClaimAcceptedAlways(status) == TRUE

\* faulty variant of ClaimAccepted: a cancelled task is claimed as well
ClaimAcceptedOrCancelled(status) == status \in {"pending", "cancelled"}

\* section 4.5, firing: the claim is one atomic test-and-set of the status
ClaimAccepted(status) == status = "pending"

\* the tick claims one of the tasks it listed: a claimed task is running and
\* a restart batch is produced for it; a task that is no longer pending is
\* passed over
ClaimNext(k, t) ==
    /\ tick[k].pc = "claim"
    /\ t \in tick[k].due
    /\ IF ClaimAccepted(task[t].status)
       THEN /\ task' = [task EXCEPT ![t].status = "running"]
            /\ batches' = [batches EXCEPT ![t] = @ + 1]
            /\ tick' = [tick EXCEPT ![k].pc = "run", ![k].due = @ \ {t},
                                    ![k].cur = t, ![k].undelivered = FALSE]
       ELSE /\ tick' = [tick EXCEPT ![k].due = @ \ {t}]
            /\ UNCHANGED <<task, batches>>

\* the batch of the claimed task has ended: the task mirrors its outcome
BatchDone(k, outcome) ==
    /\ tick[k].pc = "run"
    /\ task' = [task EXCEPT ![tick[k].cur].status = outcome,
                            ![tick[k].cur].batch = outcome]
    /\ tick' = [tick EXCEPT ![k].pc = "notify"]

\* faulty variant of StatusAfterNotice: a task whose notification could not
\* be delivered is marked failed
StatusAfterNoticeFailing(status, notice) ==
    IF notice = "failed" THEN "failed" ELSE status

\* section 4.5: a notification failure does not alter the terminal status
StatusAfterNotice(status, notice) == status

\* after the batch has concluded the notification is dispatched, if one is
\* configured (notice "none" when not): it is delivered or its delivery fails
Notify(k, notice) ==
    /\ tick[k].pc = "notify"
    /\ task' = [task EXCEPT ![tick[k].cur].status = StatusAfterNotice(@, notice)]
    /\ tick' = [tick EXCEPT ![k].pc = "claim", ![k].cur = 0,
                            ![k].undelivered = (notice = "failed")]

\* the tick has gone through the tasks it listed
ScanDone(k) ==
    /\ tick[k].pc = "claim"
    /\ tick[k].due = {}
    /\ tick' = [tick EXCEPT ![k] = IdleTick]

\* half an hour passes
Advance ==
    /\ now < MaxNow
    /\ now' = now + 1

(***************************************************************************)
(* The health monitor.  startMonitoring calls monitorAllServers at once    *)
(* (line 17) and its interval timer calls it again after 60 s (lines       *)
(* 12-14), whether or not the first call has returned: sweep 1 is the      *)
(* initial call and sweep 2 the call of the first tick.  The inventory is  *)
(* two Server rows.                                                        *)
(***************************************************************************)
Rows == {1, 2}
Sweeps == {1, 2}
Statuses == {"unknown", "online", "offline"}

NoLog == [no |-> 0, pingStatus |-> FALSE, telnetStatus |-> FALSE, errorNull |-> FALSE]

NewSweep == [pc |-> "notStarted", list |-> <<>>, i |-> 0,
             snap |-> [h \in Rows |-> "unknown"],
             snapPing |-> [h \in Rows |-> 0],
             snapTelnet |-> [h \in Rows |-> 0],
             ping |-> FALSE, telnet |-> FALSE]

\* a call that has returned: lines 75-79
EndedSweep == [NewSweep EXCEPT !.pc = "ended"]

\* faulty variant of AfterSweepFailure: the rejection leaves monitorAllServers
AfterSweepFailureRethrow == "thrown"

\* lines 76-78: the catch block logs the error and the call returns
AfterSweepFailure == "ended"

\* a call whose try block was left by a rejection
FailedSweep == [NewSweep EXCEPT !.pc = AfterSweepFailure]

\* a rejection that leaves monitorAllServers is not handled by the call of
\* line 17 nor by the timer callback of lines 12-14 and ends the process
ProcessAlive == \A r \in Sweeps : sweep[r].pc # "thrown"

\* line 17 calls monitorAllServers at once; the interval timer of lines 12-14
\* calls it 60 s later, whether or not the call before it has returned
SweepDue(s) ==
    /\ sweep[s].pc = "notStarted"
    /\ s = 1 \/ sweep[1].pc # "notStarted"
    /\ ProcessAlive

\* line 29: Server.findAll({ where: { isActive: true } }), rows by id
RECURSIVE ActiveFrom(_)
ActiveFrom(h) ==
    IF h \notin Rows THEN <<>>
    ELSE IF active[h] THEN <<h>> \o ActiveFrom(h + 1)
    ELSE ActiveFrom(h + 1)

\* line 17 (sweep 1) and lines 12-14 (sweep 2): monitorAllServers is called
StartSweep(s) ==
    /\ SweepDue(s)
    /\ sweep' = [sweep EXCEPT ![s].pc = "findAll"]
    /\ UNCHANGED <<active, dbStatus, lastPing, lastTelnet, logCount, lastLog,
                   alerts, transitions, statusEvents>>

\* line 29, and lines 76-78 when the query rejects
FindAll(s, dbOk) ==
    /\ sweep[s].pc = "findAll"
    /\ IF ~dbOk
       THEN sweep' = [sweep EXCEPT ![s] = FailedSweep]
       ELSE IF ActiveFrom(1) # <<>>
       THEN sweep' = [sweep EXCEPT ![s].pc = "probe", ![s].list = ActiveFrom(1), ![s].i = 1,
                                   ![s].snap = dbStatus, ![s].snapPing = lastPing,
                                   ![s].snapTelnet = lastTelnet]
       ELSE sweep' = [sweep EXCEPT ![s] = EndedSweep]
    /\ UNCHANGED <<active, dbStatus, lastPing, lastTelnet, logCount, lastLog,
                   alerts, transitions, statusEvents>>

\* faulty variant of MonProbes: a failed ping rejects instead of resolving
\* false
MonProbesRejecting(s, pingResult, telnetResult) ==
    /\ sweep[s].pc = "probe"
    /\ IF pingResult
       THEN sweep' = [sweep EXCEPT ![s].pc = "update", ![s].ping = pingResult,
                                   ![s].telnet = telnetResult]
       ELSE sweep' = [sweep EXCEPT ![s] = FailedSweep]
    /\ UNCHANGED <<active, dbStatus, lastPing, lastTelnet, logCount, lastLog,
                   alerts, transitions, statusEvents>>

\* lines 32-36: pingServer, then telnetServer, resolved.  The two awaits
\* touch no state another call reads, so they are one step.
MonProbes(s, pingResult, telnetResult) ==
    /\ sweep[s].pc = "probe"
    /\ sweep' = [sweep EXCEPT ![s].pc = "update", ![s].ping = pingResult,
                                ![s].telnet = telnetResult]
    /\ UNCHANGED <<active, dbStatus, lastPing, lastTelnet, logCount, lastLog,
                   alerts, transitions, statusEvents>>

\* faulty variant of NewStatus: one successful check is enough
NewStatusEither(pingResult, telnetResult) ==
    IF pingResult \/ telnetResult THEN "online" ELSE "offline"

\* lines 39-41: isOnline = pingResult && telnetResult
NewStatus(pingResult, telnetResult) ==
    IF pingResult /\ telnetResult THEN "online" ELSE "offline"

SweepHost(s) == sweep[s].list[sweep[s].i]

\* faulty variant of EmitAndAdvance: an event is emitted only when the status
\* the sweep wrote differs from the one it had read
EmitOnChangeOnly(s) ==
    /\ statusEvents' = [statusEvents EXCEPT ![SweepHost(s)] =
           IF io /\ sweep[s].snap[SweepHost(s)] # NewStatus(sweep[s].ping, sweep[s].telnet)
           THEN @ + 1 ELSE @]
    /\ IF sweep[s].i < Len(sweep[s].list)
       THEN sweep' = [sweep EXCEPT ![s].pc = "probe", ![s].i = @ + 1,
                                   ![s].ping = FALSE, ![s].telnet = FALSE]
       ELSE sweep' = [sweep EXCEPT ![s] = EndedSweep]

\* lines 65-75: emit server-status when a sink was passed and go on with the
\* next server
EmitAndAdvance(s) ==
    /\ statusEvents' = [statusEvents EXCEPT ![SweepHost(s)] = IF io THEN @ + 1 ELSE @]
    /\ IF sweep[s].i < Len(sweep[s].list)
       THEN sweep' = [sweep EXCEPT ![s].pc = "probe", ![s].i = @ + 1,
                                   ![s].ping = FALSE, ![s].telnet = FALSE]
       ELSE sweep' = [sweep EXCEPT ![s] = EndedSweep]

\* lines 43-48: server.update, and lines 76-78 when it rejects
MonUpdate(s, dbOk) ==
    /\ sweep[s].pc = "update"
    /\ IF dbOk
       THEN /\ dbStatus' = [dbStatus EXCEPT ![SweepHost(s)] = NewStatus(sweep[s].ping, sweep[s].telnet)]
            /\ lastPing' = [lastPing EXCEPT ![SweepHost(s)] =
                               IF sweep[s].ping THEN s ELSE sweep[s].snapPing[SweepHost(s)]]
            /\ lastTelnet' = [lastTelnet EXCEPT ![SweepHost(s)] =
                               IF sweep[s].telnet THEN s ELSE sweep[s].snapTelnet[SweepHost(s)]]
            /\ transitions' = [transitions EXCEPT ![SweepHost(s)] =
                   IF dbStatus[SweepHost(s)] = "online"
                      /\ NewStatus(sweep[s].ping, sweep[s].telnet) = "offline"
                   THEN @ + 1 ELSE @]
            /\ sweep' = [sweep EXCEPT ![s].pc = "log"]
       ELSE /\ sweep' = [sweep EXCEPT ![s] = FailedSweep]
            /\ UNCHANGED <<dbStatus, lastPing, lastTelnet, transitions>>
    /\ UNCHANGED <<active, logCount, lastLog, alerts, statusEvents>>

\* line 60: previousStatus === 'online' && newStatus === 'offline'
AlertDue(previousStatus, newStatus) ==
    previousStatus = "online" /\ newStatus = "offline"

\* faulty variant of ErrorNull: no observation carries an error detail
ErrorNullAlways(isOnline) == TRUE

\* line 56: errorMessage is the text of the two results when !isOnline, and
\* null otherwise
ErrorNull(isOnline) == isOnline

\* lines 50-57: MonitorLog.create, lines 76-78 when it rejects, and lines
\* 59-75 when no alert is due
MonLog(s, dbOk) ==
    /\ sweep[s].pc = "log"
    /\ IF dbOk
       THEN /\ logCount' = [logCount EXCEPT ![SweepHost(s)] = @ + 1]
            /\ lastLog' = [lastLog EXCEPT ![SweepHost(s)] =
                   [no |-> s,
                    pingStatus |-> sweep[s].ping, telnetStatus |-> sweep[s].telnet,
                    errorNull |-> ErrorNull(sweep[s].ping /\ sweep[s].telnet)]]
            /\ IF AlertDue(sweep[s].snap[SweepHost(s)], NewStatus(sweep[s].ping, sweep[s].telnet))
               THEN /\ sweep' = [sweep EXCEPT ![s].pc = "alert"]
                    /\ UNCHANGED statusEvents
               ELSE EmitAndAdvance(s)
       ELSE /\ sweep' = [sweep EXCEPT ![s] = FailedSweep]
            /\ UNCHANGED <<logCount, lastLog, statusEvents>>
    /\ UNCHANGED <<active, dbStatus, lastPing, lastTelnet, alerts, transitions>>

\* sendAlertEmail of services/emailService: a delivery failure is caught and
\* logged there and is not propagated to the caller
AlertRejects(delivered) == FALSE

\* line 61: sendAlertEmail returned, the mail delivered or not; lines 64-75
\* follow, or lines 76-78 if the call rejected
MonAlert(s, delivered) ==
    /\ sweep[s].pc = "alert"
    /\ alerts' = [alerts EXCEPT ![SweepHost(s)] = @ + 1]
    /\ IF AlertRejects(delivered)
       THEN /\ sweep' = [sweep EXCEPT ![s] = FailedSweep]
            /\ UNCHANGED statusEvents
       ELSE EmitAndAdvance(s)
    /\ UNCHANGED <<active, dbStatus, lastPing, lastTelnet, logCount, lastLog, transitions>>

(***************************************************************************)
(* The routes of unnamed/part_001 that delete a group (lines 227-257),     *)
(* change a server (lines 456-491) and register a user (lines 269-350).    *)
(* A handler gives way to other requests at each await, so a request is    *)
(* one step per database call.  The middleware in front of the routes      *)
(* (authenticateToken, requirePermission) has let the request through.     *)
(***************************************************************************)
GroupIds == {1, 2}
DelReqs == {1, 2}
Names == {"ann", "bob"}
RegReqs == {1, 2}

NoDel == [pc |-> "none", id |-> 0, status |-> 0]

\* lines 234-236: Server.count({ where: { groupId } })
ServerCount(g) == Cardinality({ s \in Rows : groupId[s] = g })

\* line 238: the delete goes on unless serverCount > 0
DeleteAllowed(serverCount) == ~(serverCount > 0)

\* lines 232-242: the handler counts the servers of the group and answers
\* 400 when there are any; a count that rejects is answered 500 (line 254)
DeleteCount(r, g, dbOk) ==
    /\ del[r].pc = "none"
    /\ del' = [del EXCEPT ![r] =
                  IF ~dbOk THEN [pc |-> "done", id |-> g, status |-> 500]
                  ELSE IF ~DeleteAllowed(ServerCount(g))
                  THEN [pc |-> "done", id |-> g, status |-> 400]
                  ELSE [pc |-> "destroy", id |-> g, status |-> 0]]
    /\ UNCHANGED <<groups, groupId>>

\* lines 245-253: Group.destroy({ where: { id } }) and the answer: 404 when
\* no row was deleted
DeleteDestroy(r, dbOk) ==
    /\ del[r].pc = "destroy"
    /\ IF ~dbOk
       THEN /\ del' = [del EXCEPT ![r].pc = "done", ![r].status = 500]
            /\ UNCHANGED groups
       ELSE IF del[r].id \in groups
       THEN /\ groups' = groups \ {del[r].id}
            /\ del' = [del EXCEPT ![r].pc = "done", ![r].status = 200]
       ELSE /\ del' = [del EXCEPT ![r].pc = "done", ![r].status = 404]
            /\ UNCHANGED groups
    /\ UNCHANGED groupId

\* lines 456-491: Server.update(req.body, { where: { id } }) with the groupId
\* of the form: a group that exists, or null
UpdateServer(s, g) ==
    /\ g \in groups \cup {0}
    /\ groupId' = [groupId EXCEPT ![s] = g]
    /\ UNCHANGED <<groups, del>>

\* the six permissions of a User row
AllPermissions ==
    {"canMonitor", "canRestart", "canViewLogs", "canManageServers",
     "canManageUsers", "canScheduleTasks"}

\* lines 328-335: the permissions of a user registered without any
DefaultPermissions == {"canMonitor", "canViewLogs"}

\* what a request may carry: a token (none, one that does not verify, one of
\* a user, one of an admin), a role and permissions ("none": not in the body)
Tokens == {"none", "invalid", "user", "admin"}
AskedRoles == {"none", "user"}
AskedPermissions == {"none", "restart"}

NoUser == [role |-> "none", permissions |-> {}]
NoReg == [pc |-> "none", name |-> "", valid |-> TRUE, token |-> "none", role |-> "none",
          permissions |-> "none", first |-> FALSE, status |-> 0]

UserCount == Cardinality({ n \in Names : users[n] # NoUser })

\* lines 288-305: the status the token check answers with (0: it passes)
TokenStatus(isFirstUser, token) ==
    IF isFirstUser THEN 0
    ELSE IF token = "none" THEN 401
    ELSE IF token = "invalid" THEN 401
    ELSE IF token # "admin" THEN 403
    ELSE 0

\* faulty variant of CreatedRole: the role of the body is taken
CreatedRoleAsAsked(isFirstUser, role) == IF role = "none" THEN "user" ELSE role

\* line 323: role: isFirstUser ? 'admin' : (role || 'user')
CreatedRole(isFirstUser, role) ==
    IF isFirstUser THEN "admin" ELSE IF role = "none" THEN "user" ELSE role

\* lines 324-338: the permissions of the created row
CreatedPermissions(isFirstUser, permissions) ==
    IF isFirstUser THEN AllPermissions
    ELSE IF permissions = "none" THEN DefaultPermissions
    ELSE {"canRestart"}

\* lines 274-305: validation of the body, User.count() and the token check
RegCount(r, body, dbOk) ==
    /\ reg[r].pc = "none"
    /\ LET isFirstUser == UserCount = 0
           made == [NoReg EXCEPT !.name = body.name, !.valid = body.valid,
                                 !.token = body.token, !.role = body.role,
                                 !.permissions = body.permissions]
       IN  reg' = [reg EXCEPT ![r] =
                      IF ~body.valid
                      THEN [made EXCEPT !.pc = "done", !.status = 400]
                      ELSE IF ~dbOk
                      THEN [made EXCEPT !.pc = "done", !.status = 500]
                      ELSE IF TokenStatus(isFirstUser, body.token) # 0
                      THEN [made EXCEPT !.pc = "done", !.first = isFirstUser,
                                        !.status = TokenStatus(isFirstUser, body.token)]
                      ELSE [made EXCEPT !.pc = "find", !.first = isFirstUser]]
    /\ UNCHANGED users

\* lines 307-315: User.findOne for the username or email of the body
RegFind(r, dbOk) ==
    /\ reg[r].pc = "find"
    /\ reg' = [reg EXCEPT ![r] =
                  IF ~dbOk THEN [@ EXCEPT !.pc = "done", !.status = 500]
                  ELSE IF users[reg[r].name] # NoUser
                  THEN [@ EXCEPT !.pc = "done", !.status = 400]
                  ELSE [@ EXCEPT !.pc = "create"]]
    /\ UNCHANGED users

\* lines 317-345: bcrypt.hash, User.create and the answer 201; a create that
\* rejects, as for a username that was taken in the meantime, is answered 500
RegCreate(r, dbOk) ==
    /\ reg[r].pc = "create"
    /\ IF ~dbOk \/ users[reg[r].name] # NoUser
       THEN /\ reg' = [reg EXCEPT ![r].pc = "done", ![r].status = 500]
            /\ UNCHANGED users
       ELSE /\ users' = [users EXCEPT ![reg[r].name] =
                            [role |-> CreatedRole(reg[r].first, reg[r].role),
                             permissions |-> CreatedPermissions(reg[r].first,
                                                                reg[r].permissions)]]
            /\ reg' = [reg EXCEPT ![r].pc = "done", ![r].status = 201]

\* no request has been made: no Server row is in a group
GroupsIdle ==
    /\ groups = GroupIds
    /\ groupId = [s \in Rows |-> 0]
    /\ del = [r \in DelReqs |-> NoDel]

RegisterIdle ==
    /\ users = [n \in Names |-> NoUser]
    /\ reg = [r \in RegReqs |-> NoReg]

AdminIdle == GroupsIdle /\ RegisterIdle

(***************************************************************************)
(* startMonitoring and stopMonitoring of backend/services/monitoring.js    *)
(* (lines 6-25).  The sweeps a call or a timer starts are counted; what a  *)
(* sweep does is the subject of SpecMonitor.                               *)
(***************************************************************************)
TimerIds == 1..MaxStarts

\* line 6: let monitoringInterval; no call has been made
LifecycleIdle ==
    /\ monitoringInterval = 0
    /\ timers = {}
    /\ starts = 0
    /\ lastCall = "none"
    /\ fired = [t \in TimerIds |-> 0]
    /\ sweepsAfter = 0

\* lines 8-18: setInterval makes a new timer, whose handle replaces the one
\* the variable held, and line 17 starts the initial sweep within the call
StartMonitoring ==
    /\ starts < MaxStarts
    /\ starts' = starts + 1
    /\ timers' = timers \cup {starts + 1}
    /\ monitoringInterval' = starts + 1
    /\ lastCall' = "start"
    /\ sweepsAfter' = 0
    /\ UNCHANGED fired

\* lines 20-25: clearInterval of the handle the variable holds, if it holds
\* one; the variable keeps the handle
StopMonitoring ==
    /\ timers' = IF monitoringInterval # 0 THEN timers \ {monitoringInterval} ELSE timers
    /\ lastCall' = "stop"
    /\ sweepsAfter' = 0
    /\ UNCHANGED <<monitoringInterval, starts, fired>>

\* lines 12-14: 60 s have passed for a timer that is set, and its callback
\* calls monitorAllServers
TimerFires(t) ==
    /\ t \in timers
    /\ fired[t] < MaxTicks
    /\ fired' = [fired EXCEPT ![t] = @ + 1]
    /\ sweepsAfter' = sweepsAfter + 1
    /\ UNCHANGED <<monitoringInterval, timers, starts, lastCall>>

(***************************************************************************)
(* Spec: one run of executeRestart.                                        *)
(***************************************************************************)
\* no probe of the monitor is in flight
ProbesIdle == monPing = NoChild /\ socket = NoSocket

\* executeRestart is not running twice
BatchesIdle == batch = [b \in Batches |-> NoBatch]

AuxIdle == ProbesIdle /\ BatchesIdle /\ SchedulerIdle /\ AdminIdle /\ LifecycleIdle

\* the Server rows as sweeps of an earlier run of the monitor may have left
\* them: never probed, or found online
Snapshots ==
    { [status |-> "unknown", probed |-> 0], [status |-> "online", probed |-> 1] }

MonitorStopped(snapshot) ==
    /\ active = [h \in Rows |-> TRUE]
    /\ dbStatus = [h \in Rows |-> snapshot.status]
    /\ lastPing = [h \in Rows |-> snapshot.probed]
    /\ lastTelnet = [h \in Rows |-> snapshot.probed]
    /\ sweep = [s \in Sweeps |-> NewSweep]
    /\ logCount = [h \in Rows |-> 0]
    /\ lastLog = [h \in Rows |-> NoLog]
    /\ alerts = [h \in Rows |-> 0]
    /\ transitions = [h \in Rows |-> 0]
    /\ statusEvents = [h \in Rows |-> 0]

MonitorIdle ==
    /\ active = [h \in Rows |-> TRUE]
    /\ dbStatus = [h \in Rows |-> "unknown"]
    /\ lastPing = [h \in Rows |-> 0]
    /\ lastTelnet = [h \in Rows |-> 0]
    /\ sweep = [s \in Sweeps |-> NewSweep]
    /\ logCount = [h \in Rows |-> 0]
    /\ lastLog = [h \in Rows |-> NoLog]
    /\ alerts = [h \in Rows |-> 0]
    /\ transitions = [h \in Rows |-> 0]
    /\ statusEvents = [h \in Rows |-> 0]

Init ==
    /\ \E snapshot \in Snapshots : MonitorStopped(snapshot)
    /\ servers0 \in ServerLists
    /\ servers = servers0
    /\ io \in BOOLEAN
    /\ rpc = "call"
    /\ idx = 0
    /\ inStep = {}
    /\ details = NoDetails
    /\ restartLog = [status |-> "running", details |-> NoDetails, endTime |-> FALSE]
    /\ emitted = <<>>
    /\ order = <<>>
    /\ sshCalls = [h \in HostIds |-> 0]
    /\ pingOk = [h \in HostIds |-> "none"]
    /\ waited = [h \in HostIds |-> 0]
    /\ ping = NoChild
    /\ ssh = NoChild
    /\ AuxIdle

\* an await of executeRestart whose promise has settled resumes as a microtask,
\* before the event loop delivers any further child event or timer
Resumable ==
    \/ rpc = "ping" /\ ping.promise.settled
    \/ rpc = "ssh" /\ ssh.promise.settled

Next ==
    \/ StartRestart
    \/ LoopNext
    \/ LoopExit
    \/ AfterPing
    \/ AfterReboot
    \/ DelayElapsed
    \/ \E dbOk \in BOOLEAN : UpdateLog(dbOk)
    \/ \E dbOk \in BOOLEAN : CatchUpdate(dbOk)
    \/ \E code \in {0, 1, NullCode} :
           ~Resumable /\ PingClose(code) /\ UNCHANGED <<restartVars, ssh, monitorVars, auxVars>>
    \/ ~Resumable /\ PingError /\ UNCHANGED <<restartVars, ssh, monitorVars, auxVars>>
    \/ ~Resumable /\ PingTimeout /\ UNCHANGED <<restartVars, ssh, monitorVars, auxVars>>
    \/ \E text \in Stderrs \ {""} :
           ~Resumable /\ SshData(text) /\ UNCHANGED <<restartVars, ping, monitorVars, auxVars>>
    \/ \E code \in CloseCodes :
           ~Resumable /\ SshClose(code) /\ UNCHANGED <<restartVars, ping, monitorVars, auxVars>>
    \/ ~Resumable /\ SshError /\ UNCHANGED <<restartVars, ping, monitorVars, auxVars>>
    \/ ~Resumable /\ SshTimeout /\ UNCHANGED <<restartVars, ping, monitorVars, auxVars>>

Spec == Init /\ [][Next]_vars

(***************************************************************************)
(* SpecReboot: one call executeSSHReboot(server), with every order of the  *)
(* child's data, close and error events and of the 15 s timer, including   *)
(* the events that come after the promise has settled.                     *)
(***************************************************************************)
InitReboot ==
    /\ \E s \in ServerRecs : servers0 = <<s>> /\ ssh = Spawned(s.id)
    /\ servers = servers0
    /\ io = FALSE
    /\ rpc = "reboot"
    /\ idx = 1
    /\ inStep = {}
    /\ details = NoDetails
    /\ restartLog = [status |-> "running", details |-> NoDetails, endTime |-> FALSE]
    /\ emitted = <<>>
    /\ order = <<>>
    /\ sshCalls = [h \in HostIds |-> IF h = servers0[1].id THEN 1 ELSE 0]
    /\ pingOk = [h \in HostIds |-> "none"]
    /\ waited = [h \in HostIds |-> 0]
    /\ ping = NoChild
    /\ MonitorIdle
    /\ AuxIdle

NextReboot ==
    \/ \E text \in Stderrs \ {""} : SshData(text) /\ UNCHANGED <<restartVars, ping, monitorVars, auxVars>>
    \/ \E code \in CloseCodes : SshClose(code) /\ UNCHANGED <<restartVars, ping, monitorVars, auxVars>>
    \/ SshError /\ UNCHANGED <<restartVars, ping, monitorVars, auxVars>>
    \/ SshTimeout /\ UNCHANGED <<restartVars, ping, monitorVars, auxVars>>

SpecReboot == InitReboot /\ [][NextReboot]_vars

(***************************************************************************)
(* SpecMonitor: the sweeps of the monitor over the Server rows, from any   *)
(* persisted status of the rows.                                           *)
(***************************************************************************)
InitMonitor ==
    /\ active \in [Rows -> BOOLEAN]
    /\ dbStatus \in [Rows -> Statuses]
    /\ lastPing = [h \in Rows |-> 0]
    /\ lastTelnet = [h \in Rows |-> 0]
    /\ sweep = [s \in Sweeps |-> NewSweep]
    /\ logCount = [h \in Rows |-> 0]
    /\ lastLog = [h \in Rows |-> NoLog]
    /\ alerts = [h \in Rows |-> 0]
    /\ transitions = [h \in Rows |-> 0]
    /\ statusEvents = [h \in Rows |-> 0]
    /\ servers0 = <<>>
    /\ servers = <<>>
    /\ io = TRUE
    /\ rpc = "none"
    /\ idx = 0
    /\ inStep = {}
    /\ details = NoDetails
    /\ restartLog = [status |-> "running", details |-> NoDetails, endTime |-> FALSE]
    /\ emitted = <<>>
    /\ order = <<>>
    /\ sshCalls = [h \in HostIds |-> 0]
    /\ pingOk = [h \in HostIds |-> "none"]
    /\ waited = [h \in HostIds |-> 0]
    /\ ping = NoChild
    /\ ssh = NoChild
    /\ AuxIdle

NextMonitor ==
    \/ \E s \in Sweeps : StartSweep(s) /\ UNCHANGED <<restartVars, ping, ssh, auxVars>>
    \/ \E s \in Sweeps, dbOk \in BOOLEAN : FindAll(s, dbOk) /\ UNCHANGED <<restartVars, ping, ssh, auxVars>>
    \/ \E s \in Sweeps, p, t \in BOOLEAN : MonProbes(s, p, t) /\ UNCHANGED <<restartVars, ping, ssh, auxVars>>
    \/ \E s \in Sweeps, dbOk \in BOOLEAN : MonUpdate(s, dbOk) /\ UNCHANGED <<restartVars, ping, ssh, auxVars>>
    \/ \E s \in Sweeps, dbOk \in BOOLEAN : MonLog(s, dbOk) /\ UNCHANGED <<restartVars, ping, ssh, auxVars>>
    \/ \E s \in Sweeps, delivered \in BOOLEAN : MonAlert(s, delivered) /\ UNCHANGED <<restartVars, ping, ssh, auxVars>>

SpecMonitor == InitMonitor /\ [][NextMonitor]_vars

(***************************************************************************)
(* SpecProbe: one call each of the pre-flight pingServer, of the monitor's *)
(* pingServer and of telnetServer, with every order of the events of each, *)
(* including those that come after its promise has settled.                *)
(***************************************************************************)
\* no call of executeRestart has been made
RestartIdle ==
    /\ servers0 = <<>>
    /\ servers = <<>>
    /\ io = TRUE
    /\ rpc = "none"
    /\ idx = 0
    /\ inStep = {}
    /\ details = NoDetails
    /\ restartLog = [status |-> "running", details |-> NoDetails, endTime |-> FALSE]
    /\ emitted = <<>>
    /\ order = <<>>
    /\ sshCalls = [h \in HostIds |-> 0]
    /\ pingOk = [h \in HostIds |-> "none"]
    /\ waited = [h \in HostIds |-> 0]

InitProbe ==
    /\ RestartIdle
    /\ MonitorIdle
    /\ ping = Spawned(1)
    /\ ssh = NoChild
    /\ monPing = Spawned(1)
    /\ socket = Connecting(1)
    /\ BatchesIdle
    /\ SchedulerIdle
    /\ AdminIdle
    /\ LifecycleIdle

NextProbe ==
    \/ \E code \in {0, 1, NullCode} :
           PingClose(code) /\ UNCHANGED <<restartVars, ssh, monitorVars, auxVars>>
    \/ PingError /\ UNCHANGED <<restartVars, ssh, monitorVars, auxVars>>
    \/ PingTimeout /\ UNCHANGED <<restartVars, ssh, monitorVars, auxVars>>
    \/ \E code \in {0, 1, NullCode} :
           MonPingClose(code) /\ UNCHANGED <<restartVars, ping, ssh, monitorVars, socket, otherVars>>
    \/ MonPingError /\ UNCHANGED <<restartVars, ping, ssh, monitorVars, socket, otherVars>>
    \/ MonPingTimeout /\ UNCHANGED <<restartVars, ping, ssh, monitorVars, socket, otherVars>>
    \/ TelnetConnect /\ UNCHANGED <<restartVars, ping, ssh, monitorVars, monPing, otherVars>>
    \/ TelnetError /\ UNCHANGED <<restartVars, ping, ssh, monitorVars, monPing, otherVars>>
    \/ TelnetTimeout /\ UNCHANGED <<restartVars, ping, ssh, monitorVars, monPing, otherVars>>

SpecProbe == InitProbe /\ [][NextProbe]_vars

(***************************************************************************)
(* SpecBatches: two calls of executeRestart whose servers arrays are rows  *)
(* of the same table, so that a server both name has one restartOrder and  *)
(* one restartDelay.                                                       *)
(***************************************************************************)
InitBatches ==
    /\ RestartIdle
    /\ MonitorIdle
    /\ ping = NoChild
    /\ ssh = NoChild
    /\ ProbesIdle
    /\ SchedulerIdle
    /\ AdminIdle
    /\ LifecycleIdle
    /\ \E l1, l2 \in ServerLists :
           /\ \A k \in DOMAIN l1 \cap DOMAIN l2 : l1[k] = l2[k]
           /\ batch = [b \in Batches |->
                          [pc |-> "call", list |-> IF b = 1 THEN l1 ELSE l2, i |-> 0]]

NextBatches ==
    \/ \E b \in Batches : BatchStart(b) /\ UNCHANGED <<restartVars, ping, ssh, monitorVars, probeVars, schedVars, adminVars, lifeVars>>
    \/ \E b \in Batches : BatchNext(b) /\ UNCHANGED <<restartVars, ping, ssh, monitorVars, probeVars, schedVars, adminVars, lifeVars>>
    \/ \E b \in Batches, r \in BOOLEAN :
           BatchPing(b, r) /\ UNCHANGED <<restartVars, ping, ssh, monitorVars, probeVars, schedVars, adminVars, lifeVars>>
    \/ \E b \in Batches, ok \in BOOLEAN :
           BatchReboot(b, ok) /\ UNCHANGED <<restartVars, ping, ssh, monitorVars, probeVars, schedVars, adminVars, lifeVars>>
    \/ \E b \in Batches : BatchDelay(b) /\ UNCHANGED <<restartVars, ping, ssh, monitorVars, probeVars, schedVars, adminVars, lifeVars>>
    \/ \E b \in Batches : BatchExit(b) /\ UNCHANGED <<restartVars, ping, ssh, monitorVars, probeVars, schedVars, adminVars, lifeVars>>

SpecBatches == InitBatches /\ [][NextBatches]_vars

(***************************************************************************)
(* SpecScheduler: requests of the page, the scan ticks of the driver and   *)
(* the clock.                                                              *)
(***************************************************************************)
InitScheduler ==
    /\ RestartIdle
    /\ MonitorIdle
    /\ ping = NoChild
    /\ ssh = NoChild
    /\ ProbesIdle
    /\ BatchesIdle
    /\ SchedulerIdle
    /\ AdminIdle
    /\ LifecycleIdle

NextScheduler ==
    \/ \E nonEmpty \in BOOLEAN, lead \in Leads, tz \in TzOffsets :
           /\ HandleSubmit(nonEmpty, lead, tz)
           /\ UNCHANGED <<restartVars, ping, ssh, monitorVars, probeVars, adminVars, lifeVars, batch, now, tick, batches>>
    \/ \E t \in Tasks :
           /\ HandleCancel(t)
           /\ UNCHANGED <<restartVars, ping, ssh, monitorVars, probeVars, adminVars, lifeVars, batch, now, tick, batches>>
    \/ \E k \in Ticks :
           /\ Scan(k)
           /\ UNCHANGED <<restartVars, ping, ssh, monitorVars, probeVars, adminVars, lifeVars, batch, task, now, batches, response>>
    \/ \E k \in Ticks, t \in Tasks :
           /\ ClaimNext(k, t)
           /\ UNCHANGED <<restartVars, ping, ssh, monitorVars, probeVars, adminVars, lifeVars, batch, now, response>>
    \/ \E k \in Ticks, outcome \in {"completed", "failed"} :
           /\ BatchDone(k, outcome)
           /\ UNCHANGED <<restartVars, ping, ssh, monitorVars, probeVars, adminVars, lifeVars, batch, now, batches, response>>
    \/ \E k \in Ticks, notice \in {"none", "delivered", "failed"} :
           /\ Notify(k, notice)
           /\ UNCHANGED <<restartVars, ping, ssh, monitorVars, probeVars, adminVars, lifeVars, batch, now, batches, response>>
    \/ \E k \in Ticks :
           /\ ScanDone(k)
           /\ UNCHANGED <<restartVars, ping, ssh, monitorVars, probeVars, adminVars, lifeVars, batch, task, now, batches, response>>
    \/ /\ Advance
       /\ UNCHANGED <<restartVars, ping, ssh, monitorVars, probeVars, adminVars, lifeVars, batch, task, tick, batches, response>>

SpecScheduler == InitScheduler /\ [][NextScheduler]_vars

(***************************************************************************)
(* Properties.                                                             *)
(***************************************************************************)
\* the server of the batch with the given id, and its place in the list the
\* caller passed
Pos0(id) == CHOOSE i \in 1..Len(servers0) : servers0[i].id = id
Server0(id) == servers0[Pos0(id)]

BatchIds == { servers0[i].id : i \in 1..Len(servers0) }
Succeeded == { details.servers[i].id : i \in 1..Len(details.servers) }
Failed == { details.errors[i].serverId : i \in 1..Len(details.errors) }
LoopOver == rpc \in {"update", "catch", "done", "thrown"}

\* C1: the servers of a batch start their step (pre-flight, then reboot) in
\* non-decreasing restartOrder, and servers of equal restartOrder in the order
\* they had in the list passed to executeRestart.
C1_SortedStableOrder ==
    \A i, j \in 1..Len(order) :
        i < j =>
            /\ Server0(order[i]).restartOrder <= Server0(order[j]).restartOrder
            /\ Server0(order[i]).restartOrder = Server0(order[j]).restartOrder
                   => Pos0(order[i]) < Pos0(order[j])

\* a batch passed in descending restartOrder has been processed in full
C1_Witness ==
    /\ LoopOver
    /\ Len(servers0) = 2 /\ Len(order) = 2
    /\ servers0[1].restartOrder > servers0[2].restartOrder
    /\ order = <<servers0[2].id, servers0[1].id>>

\* C2: at most one server of the batch is in its step at any time; a child
\* process that is awaited belongs to that server; and a new step starts only
\* when no step (pacing wait included) is in progress.
C2_Sequential ==
    /\ Cardinality(inStep) <= 1
    /\ rpc \in {"ping", "ssh", "delay"} => inStep = {Current.id}
    /\ rpc = "ping" => ping.host = Current.id
    /\ rpc = "ssh" => ssh.host = Current.id
    /\ rpc = "loop" => inStep = {}
    /\ Len(order) = idx

\* the second server is in its reboot after the first one's step has ended
C2_Witness ==
    /\ rpc = "ssh" /\ idx = 2
    /\ inStep = {servers[2].id}
    /\ servers[1].id \in Succeeded /\ waited[servers[1].id] > 0

\* C3: executeSSHReboot is called once for a server whose pre-flight ping
\* succeeded and never for a server whose pre-flight failed, and a server
\* whose pre-flight failed is recorded among the errors of the batch.
C3_RebootOncePerReachable ==
    \A h \in HostIds :
        /\ sshCalls[h] <= 1
        /\ pingOk[h] = "ok" <=> sshCalls[h] = 1
        /\ pingOk[h] = "fail" =>
               /\ sshCalls[h] = 0
               /\ \E i \in 1..Len(details.errors) :
                      /\ details.errors[i].serverId = h
                      /\ details.errors[i].error = "Server is not reachable via ping"
        /\ (LoopOver /\ h \in BatchIds) => pingOk[h] # "none"

\* a batch ended with one server rebooted and one stopped by its pre-flight
C3_Witness ==
    /\ LoopOver
    /\ \E h, g \in BatchIds :
           /\ pingOk[h] = "ok" /\ sshCalls[h] = 1
           /\ pingOk[g] = "fail" /\ sshCalls[g] = 0 /\ g \in Failed

\* C4: when the loop is over every server of the batch has been attempted,
\* whatever failed before it, and the outer catch block is not entered by the
\* failure of a server.
C4_FailureDoesNotAbort ==
    /\ LoopOver => /\ { order[i] : i \in 1..Len(order) } = BatchIds
                   /\ Succeeded \cup Failed = BatchIds
    /\ rpc \in {"loop", "ping", "ssh", "delay"} => restartLog.status = "running"

\* the first server failed by timeout of its reboot and the second was
\* attempted after it
C4_Witness ==
    /\ LoopOver
    /\ Len(order) = 2
    /\ Len(details.errors) >= 1
    /\ details.errors[1] = [serverId |-> order[1], error |-> "SSH command timeout"]
    /\ order[2] \in Succeeded

C6_NeverLeftRunning ==
    rpc \in {"done", "thrown"} =>
        /\ restartLog.status \in {"completed", "failed"}
        /\ restartLog.endTime

\* C7 (as claimed): a server with a positive restartDelay whose step has
\* ended, succeeded or failed, was followed by its pacing wait before the
\* next server started.
C7_PacingAfterEveryHost ==
    \A i \in 1..Len(order) :
        (i < Len(order) /\ Server0(order[i]).restartDelay > 0)
            => waited[order[i]] = Server0(order[i]).restartDelay * 1000

\* C7 (amended): a server whose step has ended was followed by a pacing wait
\* of restartDelay seconds exactly when its reboot succeeded and its
\* restartDelay is positive; after a server that failed no wait is made.
C7_PacingAfterSuccess ==
    \A h \in BatchIds :
        (h \in Succeeded \cup Failed /\ h \notin inStep) =>
            /\ (h \in Succeeded /\ Server0(h).restartDelay > 0)
                   => waited[h] = Server0(h).restartDelay * 1000
            /\ (h \in Failed \/ Server0(h).restartDelay = 0) => waited[h] = 0

\* the second server has started after the pacing wait of the first
C7_Witness ==
    /\ Len(order) = 2
    /\ order[1] \in Succeeded
    /\ Server0(order[1]).restartDelay = 30
    /\ waited[order[1]] = 30000

\* C8: when the close event settles the reboot, codes 0, 255 and null give
\* success and any other code gives a failure whose message is the captured
\* stderr, or names the exit code when stderr is empty.
C8_CloseClassification ==
    (ssh.first = "close") =>
        /\ ssh.promise.settled
        /\ ssh.closeCode \in {0, 255, NullCode} => ssh.promise.ok
        /\ ssh.closeCode = 1 =>
               /\ ~ssh.promise.ok
               /\ ssh.stderr = "Permission denied" => ssh.promise.msg = "Permission denied"
               /\ ssh.stderr = "" => ssh.promise.msg = "SSH command failed with exit code 1"

\* the connection dropped (exit code 255) and the reboot counts as done
C8_Witness ==
    /\ ssh.first = "close" /\ ssh.closeCode = 255
    /\ ssh.promise.settled /\ ssh.promise.ok

\* C9: the event that happens first fixes the result of the reboot; when it
\* is the 15 s timer the result is the failure 'SSH command timeout', also
\* after the killed child's close event with a null code.
C9_FirstEventDecides ==
    /\ ssh.first = "none" <=> ~ssh.promise.settled
    /\ ssh.first = "timeout" =>
           ssh.promise = [settled |-> TRUE, ok |-> FALSE, msg |-> "SSH command timeout"]
    /\ ssh.first = "error" => ~ssh.promise.ok
    /\ ssh.first = "close" => (ssh.promise.ok <=> RebootAccepted(ssh.closeCode))

\* the timer fired first and the killed child then closed with a null code
C9_Witness ==
    /\ ssh.first = "timeout" /\ ssh.killed
    /\ ssh.closed /\ ssh.closeCode = NullCode
    /\ ~ssh.promise.ok /\ ssh.promise.msg = "SSH command timeout"

\* C10: the write of a row's status by a sweep (lines 43-48) leaves the
\* status 'online' exactly when the ping and the port check of that sweep for
\* that row both succeeded and 'offline' otherwise; a status changes only by
\* such a write, and no step sets a status to 'unknown'.
C10_StatusIsConjunction ==
    [][\A h \in Rows :
          /\ \A s \in Sweeps :
                 (sweep[s].pc = "update" /\ sweep'[s].pc = "log" /\ SweepHost(s) = h) =>
                     /\ dbStatus'[h] = "online" <=> (sweep[s].ping /\ sweep[s].telnet)
                     /\ dbStatus'[h] = "offline" <=> ~(sweep[s].ping /\ sweep[s].telnet)
          /\ dbStatus'[h] # dbStatus[h] =>
                 \E s \in Sweeps :
                     sweep[s].pc = "update" /\ sweep'[s].pc = "log" /\ SweepHost(s) = h
          /\ dbStatus'[h] = "unknown" => dbStatus[h] = "unknown"
      ]_vars

\* a sweep has just written 'offline' to a row it had read as 'online': its
\* ping succeeded and its port check failed
C10_Witness ==
    \E s \in Sweeps :
        /\ sweep[s].pc = "log"
        /\ sweep[s].ping /\ ~sweep[s].telnet
        /\ sweep[s].snap[SweepHost(s)] = "online"
        /\ dbStatus[SweepHost(s)] = "offline"

\* a sweep is between its write of the status of row h and its request for
\* the alert
AlertPending(h) ==
    \E s \in Sweeps : sweep[s].pc \in {"log", "alert"} /\ SweepHost(s) = h

\* C11 (as claimed): over the sweeps, an offline alert is requested exactly
\* once for each change of a row's persisted status from 'online' to
\* 'offline': never more alerts than such changes, and as many alerts as
\* changes once no sweep is between the write and the alert.  A change from
\* 'unknown' or to 'online', and a row that stays 'offline', count no
\* transition and so allow no alert.
C11_AlertOncePerTransition ==
    \A h \in Rows :
        /\ alerts[h] <= transitions[h]
        /\ ~AlertPending(h) => alerts[h] = transitions[h]

\* the sweep is in the loop iteration of one of its servers
InIteration(s) == sweep[s].pc \in {"probe", "update", "log", "alert"}

\* the sweeps that are about to request the alert for row h
Alerting(h) == { s \in Sweeps : sweep[s].pc = "alert" /\ SweepHost(s) = h }

\* C12 (as claimed): in every sweep one server-status event is emitted for
\* each active server of the sweep: a sweep leaves the iteration of a server
\* only with that server's event emitted, and ends only after its last server.
C12_EventForEveryActiveHost ==
    [][\A s \in Sweeps :
          (InIteration(s) /\ (sweep'[s].pc = "ended" \/ sweep'[s].i # sweep[s].i)) =>
              /\ statusEvents'[SweepHost(s)] = statusEvents[SweepHost(s)] + 1
              /\ sweep'[s].pc = "ended" => sweep[s].i = Len(sweep[s].list)
      ]_vars

\* C12 (amended): with an event sink, one server-status event is emitted for
\* a server in a sweep exactly when the sweep has written the status and the
\* observation of that server (after the alert request when one is due),
\* whether or not the status changed and whether or not the alert mail was
\* delivered; a sweep writes at most one observation per server, and emits
\* nothing for a server that is not active.
C12_EventPerObservation ==
    \A h \in Rows :
        /\ statusEvents[h] + Cardinality(Alerting(h)) = logCount[h]
        /\ logCount[h] <= Cardinality({ s \in Sweeps : sweep[s].pc # "notStarted" })
        /\ ~active[h] => statusEvents[h] = 0

\* both sweeps wrote 'offline' to a row and neither requested an alert: two
\* events were emitted for the row, one of them at least for no change
C12_Witness ==
    \E h \in Rows :
        /\ \A s \in Sweeps : sweep[s].pc = "ended"
        /\ statusEvents[h] = 2 /\ logCount[h] = 2
        /\ dbStatus[h] = "offline" /\ transitions[h] = 0 /\ alerts[h] = 0

\* C13 (as claimed): whatever fails while a sweep handles one server, the
\* sweep goes on to its remaining servers: it ends only after the last one.
C13_FailureDoesNotEndSweep ==
    [][\A s \in Sweeps :
          (InIteration(s) /\ sweep'[s].pc = "ended") => sweep[s].i = Len(sweep[s].list)
      ]_vars

\* C13 (amended): checks that yield false do not keep a sweep from its
\* remaining servers; a sweep ends before its last server only when an
\* awaited call of the iteration rejects (the write of the status, line 44,
\* the write of the observation, line 51, or the alert request, line 61),
\* and then that step writes nothing and emits nothing.
C13_OnlyRejectionEndsSweep ==
    [][\A s \in Sweeps :
          (InIteration(s) /\ sweep'[s].pc = "ended" /\ sweep[s].i < Len(sweep[s].list)) =>
              /\ sweep[s].pc \in {"update", "log", "alert"}
              /\ dbStatus' = dbStatus /\ logCount' = logCount
              /\ statusEvents' = statusEvents
      ]_vars

\* a sweep is at its second server after both checks of its first server
\* failed
C13_Witness ==
    \E s \in Sweeps :
        /\ sweep[s].pc = "update" /\ sweep[s].i = 2
        /\ lastLog[sweep[s].list[1]] =
               [no |-> s, pingStatus |-> FALSE, telnetStatus |-> FALSE, errorNull |-> FALSE]
        /\ dbStatus[sweep[s].list[1]] = "offline"

\* C14: a rejection inside a sweep never leaves monitorAllServers, and the
\* call of the next tick is due whenever the first call has been made,
\* however that call ended.
C14_FailedSweepIsSkipped ==
    /\ \A s \in Sweeps : sweep[s].pc # "thrown"
    /\ (sweep[1].pc # "notStarted" /\ sweep[2].pc = "notStarted") => SweepDue(2)

\* the first sweep has ended without an observation of an active server, so
\* by a rejection, and the sweep of the next tick is probing that server
C14_Witness ==
    /\ sweep[1].pc = "ended"
    /\ sweep[2].pc = "probe" /\ sweep[2].i = 1
    /\ logCount[SweepHost(2)] = 0

\* what a ping check has resolved, given the event that came first
PingResultFits(c) ==
    /\ c.first = "none" <=> ~c.promise.settled
    /\ c.promise.msg = ""
    /\ c.first = "close" => (c.promise.ok <=> c.closeCode = 0)
    /\ c.first = "error" => ~c.promise.ok
    /\ c.first = "timeout" => ~c.promise.ok /\ c.killed

\* C15: each probe resolves a boolean at its first event and keeps it,
\* whatever events follow, and never rejects: an exit code other than 0, a
\* spawn or socket error and the timer give false, only exit code 0 or an
\* established connection give true, and when the timer is first the child
\* has been killed or the socket destroyed.
C15_ProbeResolvesOnce ==
    /\ PingResultFits(ping)
    /\ PingResultFits(monPing)
    /\ socket.first = "none" <=> ~socket.promise.settled
    /\ socket.promise.msg = ""
    /\ socket.first = "connect" => socket.promise.ok
    /\ socket.first = "error" => ~socket.promise.ok
    /\ socket.first = "timeout" => ~socket.promise.ok /\ socket.destroyed
    /\ ~(socket.connected /\ socket.errored)

\* the timer of a ping check fired first and the child then still closed
\* with exit code 0: the result stays false; the port check timed out
C15_Witness ==
    /\ monPing.first = "timeout" /\ monPing.closed /\ monPing.closeCode = 0
    /\ monPing.promise.settled /\ ~monPing.promise.ok
    /\ ping.first = "error" /\ ping.timerFired /\ ~ping.promise.ok
    /\ socket.first = "timeout" /\ socket.destroyed /\ ~socket.promise.ok

(***************************************************************************)
(* SpecGroups: two requests to delete a group and requests that move a     *)
(* server into a group or out of it.                                       *)
(***************************************************************************)
InitGroups ==
    /\ RestartIdle
    /\ MonitorIdle
    /\ ping = NoChild
    /\ ssh = NoChild
    /\ ProbesIdle
    /\ BatchesIdle
    /\ SchedulerIdle
    /\ AdminIdle
    /\ LifecycleIdle

NextGroups ==
    \/ \E r \in DelReqs, g \in GroupIds, dbOk \in BOOLEAN :
           /\ DeleteCount(r, g, dbOk)
           /\ UNCHANGED <<restartVars, ping, ssh, monitorVars, probeVars, batch, schedVars, users, reg, lifeVars>>
    \/ \E r \in DelReqs, dbOk \in BOOLEAN :
           /\ DeleteDestroy(r, dbOk)
           /\ UNCHANGED <<restartVars, ping, ssh, monitorVars, probeVars, batch, schedVars, users, reg, lifeVars>>
    \/ \E s \in Rows, g \in GroupIds \cup {0} :
           /\ UpdateServer(s, g)
           /\ UNCHANGED <<restartVars, ping, ssh, monitorVars, probeVars, batch, schedVars, users, reg, lifeVars>>

SpecGroups == InitGroups /\ [][NextGroups]_vars

(***************************************************************************)
(* SpecRegister: two requests to register a user, on an empty User table.  *)
(***************************************************************************)
Bodies ==
    [name : Names, valid : BOOLEAN, token : Tokens, role : AskedRoles,
     permissions : AskedPermissions]

InitRegister == InitGroups

NextRegister ==
    \/ \E r \in RegReqs, body \in Bodies, dbOk \in BOOLEAN :
           /\ RegCount(r, body, dbOk)
           /\ UNCHANGED <<restartVars, ping, ssh, monitorVars, probeVars, batch, schedVars, groups, groupId, del, lifeVars>>
    \/ \E r \in RegReqs, dbOk \in BOOLEAN :
           /\ RegFind(r, dbOk)
           /\ UNCHANGED <<restartVars, ping, ssh, monitorVars, probeVars, batch, schedVars, groups, groupId, del, lifeVars>>
    \/ \E r \in RegReqs, dbOk \in BOOLEAN :
           /\ RegCreate(r, dbOk)
           /\ UNCHANGED <<restartVars, ping, ssh, monitorVars, probeVars, batch, schedVars, groups, groupId, del, lifeVars>>

SpecRegister == InitRegister /\ [][NextRegister]_vars

(***************************************************************************)
(* SpecLifecycle: calls of startMonitoring and stopMonitoring in any       *)
(* order, and the timers firing in between.                                *)
(***************************************************************************)
InitLifecycle == InitScheduler

NextLifecycle ==
    \/ StartMonitoring /\ UNCHANGED <<restartVars, ping, ssh, monitorVars, probeVars, batch, schedVars, adminVars>>
    \/ StopMonitoring /\ UNCHANGED <<restartVars, ping, ssh, monitorVars, probeVars, batch, schedVars, adminVars>>
    \/ \E t \in TimerIds :
           TimerFires(t) /\ UNCHANGED <<restartVars, ping, ssh, monitorVars, probeVars, batch, schedVars, adminVars>>

SpecLifecycle == InitLifecycle /\ [][NextLifecycle]_vars

\* the calls of executeRestart that have a reboot of server h in flight
RebootsInFlight(h) ==
    { b \in Batches : batch[b].pc = "ssh" /\ BatchServer(b).id = h }

\* C16 (as claimed): no server has two reboot invocations in flight at the
\* same time, also when two batches that name the same server run at the
\* same time.
C16_OneRebootInFlightPerHost ==
    \A h \in HostIds : Cardinality(RebootsInFlight(h)) <= 1

\* the scan ticks that are running the batch of task t
RunningTicks(t) == { k \in Ticks : tick[k].pc = "run" /\ tick[k].cur = t }

\* C17: a task is claimed at most once and at most one restart batch is ever
\* produced for it, also when two scan ticks have listed it as due: the
\* number of its batches is 1 when it has left pending through a claim and 0
\* otherwise, and at most one tick runs its batch.
C17_ClaimedAtMostOnce ==
    \A t \in Tasks :
        /\ batches[t] <= 1
        /\ batches[t] = 1 <=> task[t].status \in {"running", "completed", "failed"}
        /\ Cardinality(RunningTicks(t)) <= 1
        /\ RunningTicks(t) # {} <=> task[t].status = "running"

\* two ticks listed the same due task; one has claimed it and runs its
\* batch, the other still has it on its list
C17_Witness ==
    \E t \in Tasks, k, j \in Ticks :
        /\ k # j
        /\ tick[k].pc = "run" /\ tick[k].cur = t
        /\ tick[j].pc = "claim" /\ t \in tick[j].due
        /\ batches[t] = 1 /\ task[t].status = "running"

\* the changes of status a task may make; a row is created as pending
LegalTransitions ==
    { <<"none", "pending">>, <<"pending", "running">>, <<"running", "completed">>,
      <<"running", "failed">>, <<"pending", "cancelled">> }

\* C18: under every sequence of create and cancel requests, scan ticks and
\* batch completions, the status of a task changes only along pending ->
\* running, running -> completed, running -> failed and pending ->
\* cancelled; completed, failed and cancelled are never left.
C18_OnlyLegalTransitions ==
    [][\A t \in Tasks :
          task'[t].status # task[t].status =>
              <<task[t].status, task'[t].status>> \in LegalTransitions
      ]_vars

\* one task was cancelled and another has run to completion
C18_Witness ==
    \E t, u \in Tasks :
        /\ task[t].status = "cancelled"
        /\ task[u].status = "completed" /\ batches[u] = 1

\* C19: a cancel request for a pending task answers 'cancelled' and leaves
\* the task cancelled, a cancelled task stays as it is and no batch is ever
\* produced for it, also when its instant has passed and a tick has listed
\* it; a cancel request for any other task answers with a conflict and
\* changes neither the tasks, nor the batches, nor the ticks.
C19_CancelOnlyWhilePending ==
    [][/\ \A t \in Tasks :
             task[t].status = "cancelled" =>
                 /\ task'[t] = task[t]
                 /\ batches[t] = 0 /\ batches'[t] = 0
       /\ (response' # response /\ response'.op = "cancel") =>
             IF task[response'.task].status = "pending"
             THEN /\ response'.result = "cancelled"
                  /\ task'[response'.task].status = "cancelled"
             ELSE /\ response'.result = "conflict"
                  /\ task' = task /\ batches' = batches /\ tick' = tick
      ]_vars

\* a task was cancelled after a tick had listed it as due: its instant has
\* passed, the tick still has it on its list and no batch exists for it
C19_Witness ==
    \E t \in Tasks, k \in Ticks :
        /\ task[t].status = "cancelled" /\ task[t].instant <= now
        /\ response.op = "cancel" /\ response.task = t
        /\ response.result = "cancelled"
        /\ tick[k].pc = "claim" /\ t \in tick[k].due
        /\ batches[t] = 0

C21_EmptyHostSetStopsInPage ==
    [][(response' # response /\ response'.op = "create" /\ ~response'.hosts) =>
           /\ response'.result \in {"blocked", "invalid"}
           /\ task' = task /\ batches' = batches
      ]_vars

\* a request with no host selected and an instant the route would accept was
\* turned down by handleSubmit: no task exists
C21_Witness ==
    /\ response.op = "create" /\ ~response.hosts
    /\ response.lead > LeadTime /\ response.result = "invalid"
    /\ \A t \in Tasks : task[t].status = "none"

\* C22: a task is completed or failed exactly when its batch has concluded,
\* and its status then equals the outcome of the batch, also after the
\* notification of the outcome was dispatched and could not be delivered.
C22_StatusMirrorsBatch ==
    \A t \in Tasks :
        /\ task[t].batch # "none" <=> task[t].status \in {"completed", "failed"}
        /\ task[t].batch # "none" => task[t].status = task[t].batch

\* the only task there is was run, its batch completed, the notification
\* could not be delivered and the task is completed
C22_Witness ==
    \E k \in Ticks :
        /\ tick[k].pc = "claim" /\ tick[k].undelivered
        /\ task[1].status = "completed" /\ task[1].batch = "completed"
        /\ task[2].status = "none"

\* C23: a scan lists every pending task whose instant is not later than the
\* instant of the scan, however long ago it passed, and no other task; a
\* listed task that is still pending when the tick comes to it is fired; and
\* no batch is produced for a task before its instant.
C23_OverdueFiresNeverEarly ==
    [][/\ \A k \in Ticks :
             (tick[k].pc = "idle" /\ tick'[k].pc = "claim") =>
                 tick'[k].due = { t \in Tasks : /\ task[t].status = "pending"
                                                /\ task[t].instant <= now }
       /\ \A k \in Ticks, t \in Tasks :
             ( /\ tick[k].pc = "claim" /\ t \in tick[k].due
               /\ t \notin tick'[k].due /\ task[t].status = "pending" ) =>
                 /\ task'[t].status = "running"
                 /\ batches'[t] = batches[t] + 1
       /\ \A t \in Tasks :
             batches'[t] # batches[t] => task[t].instant <= now
      ]_vars

\* a scan listed two tasks of different instants, so that the earlier one
\* was overdue when it was listed, and the tick has fired the earlier one
C23_Witness ==
    \E k \in Ticks, t, u \in Tasks :
        /\ task[t].instant < task[u].instant
        /\ tick[k].pc = "run" /\ tick[k].cur = t /\ u \in tick[k].due
        /\ task[t].status = "running" /\ batches[t] = 1

\* C24 (as claimed): a request to delete a group that contains a server is
\* answered with an error and changes neither the groups nor the servers,
\* and a group that is deleted contains no server.
C24_OnlyEmptyGroupDeleted ==
    [][/\ \A r \in DelReqs :
             ( /\ del[r].pc = "none" /\ del'[r].pc # "none"
               /\ ServerCount(del'[r].id) > 0 ) =>
                 /\ del'[r].status \in {400, 500}
                 /\ groups' = groups /\ groupId' = groupId
       /\ \A g \in GroupIds :
             (g \in groups /\ g \notin groups') => ServerCount(g) = 0
      ]_vars

\* C25: as long as no user exists, a registration is never turned down for
\* its token, a valid one goes on to the creation unless the database
\* rejects, and the user it creates is an admin with all six permissions,
\* whatever token, role and permissions the request carried.
C25_FirstUserIsAdmin ==
    [][/\ \A r \in RegReqs :
             (reg[r].pc = "none" /\ reg'[r].pc # "none" /\ UserCount = 0) =>
                 /\ reg'[r].status \notin {401, 403}
                 /\ (reg'[r].valid /\ reg'[r].status # 500) => reg'[r].pc = "find"
       /\ \A r \in RegReqs :
             (reg[r].pc = "find" /\ reg'[r].pc # "find" /\ UserCount = 0) =>
                 reg'[r].status = 500 \/ reg'[r].pc = "create"
       /\ \A r \in RegReqs :
             (reg[r].pc = "create" /\ reg'[r].pc = "done" /\ UserCount = 0) =>
                 \/ reg'[r].status = 500 /\ users' = users
                 \/ /\ reg'[r].status = 201
                    /\ users'[reg[r].name].role = "admin"
                    /\ users'[reg[r].name].permissions = AllPermissions
                    /\ Cardinality(AllPermissions) = 6
      ]_vars

\* the first user was registered by a request with no token that asked for
\* the role 'user' and for one permission: the user is an admin with all six
C25_Witness ==
    \E r \in RegReqs :
        /\ reg[r].status = 201 /\ reg[r].first
        /\ reg[r].token = "none" /\ reg[r].role = "user"
        /\ reg[r].permissions = "restart"
        /\ UserCount = 1
        /\ users[reg[r].name] = [role |-> "admin", permissions |-> AllPermissions]

\* C26 (as claimed): while a user exists, a request whose token is not a
\* valid admin token is turned down and changes no user, and a user is
\* created only by a request that carries a valid admin token.
C26_AdminTokenOnceUserExists ==
    [][/\ \A r \in RegReqs :
             ( /\ reg[r].pc = "none" /\ reg'[r].pc # "none"
               /\ UserCount > 0 /\ reg'[r].token # "admin" ) =>
                 /\ reg'[r].status \in {400, 401, 403, 500}
                 /\ users' = users
       /\ \A r \in RegReqs :
             ( /\ reg[r].pc = "create" /\ reg'[r].status = 201
               /\ UserCount > 0 ) =>
                 reg[r].token = "admin"
      ]_vars

\* the number of entries of server h in the two lists of details
Entries(h) ==
    Cardinality({ i \in 1..Len(details.servers) : details.servers[i].id = h })
    + Cardinality({ i \in 1..Len(details.errors) : details.errors[i].serverId = h })

\* C27: when the loop is over every server of the batch has one entry in
\* the two lists of details taken together, so that the lengths of the lists
\* add up to the number of servers; and an entry is added to the errors by
\* the failure of the current server only, with the message of that failure:
\* the pre-flight message, or the message the reboot was rejected with.
C27_EveryHostInOneList ==
    [][/\ LoopOver' =>
             /\ \A h \in BatchIds' : Entries(h)' = 1
             /\ Len(details'.servers) + Len(details'.errors) = Len(servers0')
       /\ Len(details'.errors) # Len(details.errors) =>
             /\ rpc \in {"ping", "ssh"}
             /\ rpc = "ping" => ~ping.promise.ok
             /\ rpc = "ssh" => ~ssh.promise.ok /\ ssh.promise.msg # ""
             /\ details'.errors =
                    Append(details.errors,
                           [serverId |-> Current.id,
                            error |-> IF rpc = "ping"
                                      THEN "Server is not reachable via ping"
                                      ELSE ssh.promise.msg])
      ]_vars

\* a batch of two servers ended with both among the errors, one stopped by
\* its pre-flight and one by the diagnostic of its reboot
C27_Witness ==
    /\ LoopOver
    /\ Len(servers0) = 2 /\ Len(details.servers) = 0 /\ Len(details.errors) = 2
    /\ details.errors[1].error = "Server is not reachable via ping"
    /\ details.errors[2].error = "Permission denied"

\* the positions in emitted of the events of status st for server h (0: the
\* events of the batch as a whole)
EventsOf(st, h) ==
    { i \in 1..Len(emitted) : emitted[i].status = st /\ emitted[i].serverId = h }

FinalEvents == EventsOf("completed", 0) \cup EventsOf("failed", 0)

\* C28 (as claimed): with an event sink, 'started' is the first event and is
\* emitted once, a processed server has one event of its own, 'restarted'
\* when it succeeded and 'error' when it failed, and when executeRestart is
\* over there is one final event, it is the last event, and the batch row
\* has been updated.
C28_StartedPerHostFinal ==
    io =>
        /\ rpc # "call" => EventsOf("started", 0) = {1}
        /\ \A h \in BatchIds :
               /\ Cardinality(EventsOf("restarted", h)) = (IF h \in Succeeded THEN 1 ELSE 0)
               /\ Cardinality(EventsOf("error", h)) = (IF h \in Failed THEN 1 ELSE 0)
        /\ rpc \in {"done", "thrown"} =>
               /\ FinalEvents = {Len(emitted)}
               /\ restartLog.endTime
        /\ rpc \notin {"done", "thrown"} => FinalEvents = {}

C30_NoWriteAfterEndTime ==
    [][/\ restartLog.endTime => restartLog' = restartLog
       /\ restartLog' # restartLog =>
             /\ restartLog.status = "running" /\ ~restartLog.endTime
             /\ restartLog'.endTime
             /\ rpc' = "done"
      ]_vars

\* the final update was rejected and the outer catch block wrote the row:
\* that one write made it failed with an end time
C30_Witness ==
    /\ rpc = "done"
    /\ restartLog.details.kind = "error"
    /\ restartLog.status = "failed" /\ restartLog.endTime
    /\ Len(details.errors) = 0

\* C31 (as claimed): the previous status a sweep compares with is the one
\* persisted last for the row: a sweep that is about to write a row holds
\* the status the row has, and also when two sweeps run at the same time
\* there are never more alerts, requested or about to be, than changes of
\* the row's persisted status from 'online' to 'offline'.
C31_PreviousIsLastPersisted ==
    /\ \A s \in Sweeps :
           sweep[s].pc = "update" =>
               sweep[s].snap[SweepHost(s)] = dbStatus[SweepHost(s)]
    /\ \A h \in Rows :
           alerts[h] + Cardinality(Alerting(h)) <= transitions[h]

\* C32 (as claimed): once no sweep is between its write of a row's status
\* and its alert request, an alert has been requested for every change of
\* the row's persisted status from 'online' to 'offline', whatever failed in
\* between.
C32_TransitionIsAlerted ==
    \A h \in Rows :
        ~AlertPending(h) => alerts[h] >= transitions[h]

\* C33 (as claimed): when the call made last is stopMonitoring, no interval
\* timer is set and no timer has started a sweep since that call.
C33_StoppedMeansNoTimer ==
    lastCall = "stop" => timers = {} /\ sweepsAfter = 0

\* C34 (as claimed): of the requests that were answered 201, at most one was
\* let past the token check as the first user.
C34_OneFirstUser ==
    Cardinality({ r \in RegReqs : reg[r].status = 201 /\ reg[r].first }) <= 1

\* the MonitorLog row sweep s creates for the server it is handling
Observation(s) ==
    [no |-> s, pingStatus |-> sweep[s].ping, telnetStatus |-> sweep[s].telnet,
     errorNull |-> (NewStatus(sweep[s].ping, sweep[s].telnet) = "online")]

\* C35 (as claimed): a sweep that has probed a server does not go past its
\* status write and observation write without one observation of the server
\* having been recorded by it, with the results of its two checks and an
\* error detail that is null exactly for an online server.
C35_ObservationForEveryHost ==
    [][\A s \in Sweeps :
          ( \/ sweep[s].pc = "update" /\ sweep'[s].pc # "log"
            \/ sweep[s].pc = "log" /\ sweep'[s] # sweep[s] ) =>
              /\ logCount'[SweepHost(s)] = logCount[SweepHost(s)] + 1
              /\ lastLog'[SweepHost(s)] = Observation(s)
      ]_vars

\* C35 (amended): observations are recorded only by the observation write of
\* a sweep, one at a time and at most one per sweep and server, each with the
\* results of the two checks of that sweep and an error detail that is null
\* exactly for a server determined online; a sweep goes on to the alert, to
\* the event or to the next server only having recorded it, and a sweep left
\* at a rejected status write or observation write records nothing.
C35_ObservationPerWrite ==
    [][/\ \A h \in Rows :
             (logCount'[h] # logCount[h] \/ lastLog'[h] # lastLog[h]) =>
                 \E s \in Sweeps :
                     /\ sweep[s].pc = "log" /\ SweepHost(s) = h
                     /\ sweep'[s] # sweep[s]
                     /\ lastLog[h].no # s
                     /\ logCount'[h] = logCount[h] + 1
                     /\ lastLog'[h] = Observation(s)
       /\ \A s \in Sweeps :
             ( /\ sweep[s].pc = "log" /\ sweep'[s] # sweep[s]
               /\ \/ sweep'[s].pc \in {"alert", "probe"}
                  \/ statusEvents'[SweepHost(s)] # statusEvents[SweepHost(s)] ) =>
                 logCount'[SweepHost(s)] = logCount[SweepHost(s)] + 1
      ]_vars

\* both sweeps have recorded an observation of a server, the last one with a
\* successful ping, a failed port check and an error detail
C35_Witness ==
    \E h \in Rows :
        /\ logCount[h] = 2
        /\ lastLog[h].pingStatus /\ ~lastLog[h].telnetStatus
        /\ ~lastLog[h].errorNull

\* C36 (as claimed): the persisted lastPing of a server changes only by the
\* status write of a sweep whose ping check of the server succeeded, and its
\* lastTelnet only by that of a sweep whose port check succeeded.
C36_TimestampOnlyOnSuccess ==
    [][\A h \in Rows :
          /\ lastPing'[h] # lastPing[h] =>
                 \E s \in Sweeps :
                     /\ sweep[s].pc = "update" /\ sweep'[s].pc = "log"
                     /\ SweepHost(s) = h /\ sweep[s].ping
          /\ lastTelnet'[h] # lastTelnet[h] =>
                 \E s \in Sweeps :
                     /\ sweep[s].pc = "update" /\ sweep'[s].pc = "log"
                     /\ SweepHost(s) = h /\ sweep[s].telnet
      ]_vars

\* C37 (as claimed): when the outcome and the end time of a batch have been
\* written, no pacing wait has been made after the last server of the batch.
C37_NoWaitAfterLastHost ==
    (restartLog.endTime /\ Len(servers) > 0) =>
        waited[servers[Len(servers)].id] = 0

====
